---------------------------- MODULE Spec2Model ----------------------------
(***************************************************************************)
(* quick_ssm (src/main.go): list the EC2 instances of an account, let the  *)
(* operator pick one by number, then either run the diagnostic checks      *)
(* (-check) or start an SSM session through the AWS CLI and supervise the  *)
(* subprocess against SIGINT/SIGTERM.                                      *)
(*                                                                         *)
(* Strings are sequences of byte values (Go compares strings bytewise):    *)
(* "a" is <<97>>, " (2)" is <<32, 40, 50, 41>>.                            *)
(***************************************************************************)
EXTENDS Integers, Sequences, FiniteSets, TLC

VARIABLES
    mpc,          \* position of main()
    checkMode,    \* the -check flag
    instances,    \* []*InstanceInfo returned by getInstances
    input,        \* the line read at the prompt, without its newline
    selected,     \* selectedInstance.ID, or NoInstance
    diag,         \* what performDiagnostics did: "none", "error" or "report"
    instance,     \* the *types.Instance of getInstanceDetails, or Nil
    results,      \* []DiagnosticResult of performDiagnostics
    summary,      \* counts and closing line printed by displayDiagnosticResults
    spc,          \* position of startSSMSession
    registered,   \* signal.Notify(sigChan, SIGINT, SIGTERM) has run
    sigChan,      \* chan os.Signal, capacity SigChanCap
    done,         \* chan error, capacity DoneChanCap
    wpc,          \* position of the goroutine that runs cmd.Wait
    waitErr,      \* value cmd.Wait returned (TRUE: a non-nil error)
    procState,    \* the aws subprocess: "none", "alive", "exited", "reaped"
    exitKind,     \* how it exited: "none", "ok", "fail", "signaled"
    childSignals, \* signals passed to cmd.Process.Signal, in order
    branch,       \* select case taken: "none", "sig", "done"
    result,       \* return value of startSSMSession
    firstEvent,   \* which happened first: a signal delivery ("sig") or the exit
    pending,      \* what was ready when the select fired
    nStarts,      \* calls of cmd.Start
    nSignals,     \* signals the OS delivered to this program
    probe,        \* one check function called on its own: its inputs and result
    variant       \* the earlier main (src/unnamed/part_000): position, listing, target

mainVars == <<mpc, checkMode, instances, input, selected, diag, instance, results, summary>>
sessVars == <<spc, registered, sigChan, done, wpc, waitErr, procState,
              exitKind, childSignals, branch, result, pending, nStarts>>
envVars  == <<firstEvent, nSignals, probe, variant>>
vars     == <<mainVars, sessVars, envVars>>

----------------------------------------------------------------------------
(* Bounds of the model *)

MaxInst == 3

MaxSignals == 2

MaxItems == 2

(* Program constants *)

SigChanCap == 1

DoneChanCap == 1

----------------------------------------------------------------------------
(* Strings *)

Min(a, b) == IF a < b THEN a ELSE b

\* s < t for Go strings: bytewise lexicographic order
StrLess(s, t) ==
    \E i \in 1..(Min(Len(s), Len(t)) + 1) :
        /\ \A j \in 1..(i - 1) : s[j] = t[j]
        /\ \/ i > Len(s) /\ i <= Len(t)
           \/ i <= Len(s) /\ i <= Len(t) /\ s[i] < t[i]

RECURSIVE Itoa(_)
\* the %d verb for a non-negative int
Itoa(n) ==
    IF n < 10 THEN <<48 + n>> ELSE Itoa(n \div 10) \o <<48 + (n % 10)>>

\* fmt.Sprintf("%s (%d)", name, n)
SprintfNameCount(name, n) == name \o <<32, 40>> \o Itoa(n) \o <<41>>

IsDigit(c) == c >= 48 /\ c <= 57

RECURSIVE DigitsValue(_)
DigitsValue(s) ==
    IF s = <<>> THEN 0
    ELSE 10 * DigitsValue(SubSeq(s, 1, Len(s) - 1)) + (s[Len(s)] - 48)

\* strconv.Atoi: optional sign, then at least one digit and only digits
Atoi(s) ==
    LET signed == s # <<>> /\ s[1] \in {43, 45}
        digits == IF signed THEN Tail(s) ELSE s
        ok     == digits # <<>> /\ \A i \in 1..Len(digits) : IsDigit(digits[i])
    IN  IF ~ok THEN [ok |-> FALSE, val |-> 0]
        ELSE [ok  |-> TRUE,
              val |-> IF signed /\ s[1] = 45 THEN 0 - DigitsValue(digits)
                      ELSE DigitsValue(digits)]

----------------------------------------------------------------------------
(* Inventory *)

NoInstance == <<>>

\* instance ids "i1", "i2", ...
IdSet == { <<105, 48 + k>> : k \in 1..MaxInst }

\* raw names (the Name tag, or the default when the tag is missing): "a"
\* and "a (2)", a name of the form the numbering itself produces
NameSet == { <<97>>, <<97, 32, 40, 50, 41>> }

\* what the paginator yields: records with distinct ids, in any order
Arrivals ==
    UNION { { s \in [1..n -> [ID : IdSet, Name : NameSet]] :
                \A i, j \in 1..n : i # j => s[i].ID # s[j].ID } : n \in 0..MaxInst }

\* InstLess that compares the names only
InstLessNameOnly(x, y) == StrLess(x.Name, y.Name)

\* InstLess with the tie on the name broken by descending id
InstLessIdDescending(x, y) ==
    IF x.Name = y.Name THEN StrLess(y.ID, x.ID) ELSE StrLess(x.Name, y.Name)

\* the less function given to sort.Slice
InstLess(x, y) ==
    IF x.Name = y.Name THEN StrLess(x.ID, y.ID) ELSE StrLess(x.Name, y.Name)

RECURSIVE Insert(_, _)
Insert(x, s) ==
    IF s = <<>> THEN <<x>>
    ELSE IF InstLess(x, Head(s)) THEN <<x>> \o s
    ELSE <<Head(s)>> \o Insert(x, Tail(s))

RECURSIVE SortInstances(_)
\* sort.Slice(instances, less): with distinct ids less is a strict total
\* order, so the sorted slice is unique
SortInstances(s) ==
    IF s = <<>> THEN <<>> ELSE Insert(Head(s), SortInstances(Tail(s)))

\* countByName[name], zero for a missing key
CountOf(countByName, name) ==
    IF name \in DOMAIN countByName THEN countByName[name] ELSE 0

RECURSIVE DisplayLoopAppend(_, _, _)
\* DisplayLoop that numbers the display name a record already has
DisplayLoopAppend(insts, i, countByName) ==
    IF i > Len(insts) THEN insts
    ELSE
        LET name  == insts[i].Name
            old   == IF insts[i].DisplayName # <<>> THEN insts[i].DisplayName ELSE name
            n     == CountOf(countByName, name) + 1
            cnt   == [k \in (DOMAIN countByName) \cup {name} |->
                         IF k = name THEN n ELSE countByName[k]]
            dname == IF n > 1 THEN SprintfNameCount(old, n) ELSE old
        IN  DisplayLoopAppend([insts EXCEPT ![i].DisplayName = dname], i + 1, cnt)

RECURSIVE DisplayLoop(_, _, _)
\* the loop of addInstanceDisplayNames from index i on
DisplayLoop(insts, i, countByName) ==
    IF i > Len(insts) THEN insts
    ELSE
        LET name  == insts[i].Name
            n     == CountOf(countByName, name) + 1
            cnt   == [k \in (DOMAIN countByName) \cup {name} |->
                         IF k = name THEN n ELSE countByName[k]]
            dname == IF n > 1 THEN SprintfNameCount(name, n) ELSE name
        IN  DisplayLoop([insts EXCEPT ![i].DisplayName = dname], i + 1, cnt)

addInstanceDisplayNames(insts) == DisplayLoop(insts, 1, << >>)

\* getInstances after the pages were read
getInstances(arrival) ==
    addInstanceDisplayNames(
        SortInstances([i \in 1..Len(arrival) |->
            [ID |-> arrival[i].ID, Name |-> arrival[i].Name, DisplayName |-> <<>>]]))

\* lines the operator may type
InputSet ==
    { <<>>, <<120>>, <<49, 120>>, <<45, 49>>, <<43, 49>> }
        \cup { Itoa(k) : k \in 0..(MaxInst + 1) }

----------------------------------------------------------------------------
(* Diagnostics: a nil pointer is Nil, a pointer to v is <<v>> *)

Nil == <<>>

\* strings.Contains(s, sub)
Contains(s, sub) ==
    \E i \in 0..(Len(s) - Len(sub)) : SubSeq(s, i + 1, i + Len(sub)) = sub

\* strings.HasPrefix(s, prefix)
HasPrefix(s, prefix) ==
    Len(s) >= Len(prefix) /\ SubSeq(s, 1, Len(prefix)) = prefix

\* "AmazonSSMManagedInstanceCore"
SSMManagedPolicy ==
    <<65, 109, 97, 122, 111, 110, 83, 83, 77, 77, 97, 110, 97, 103, 101, 100,
      73, 110, 115, 116, 97, 110, 99, 101, 67, 111, 114, 101>>

\* "ssm:"
SSMActionPrefix == <<115, 115, 109, 58>>

\* "igw-"
IgwPrefix == <<105, 103, 119, 45>>

DiagnosticResult(name, status, message) ==
    [CheckName |-> name, Status |-> status, Message |-> message]

\* strings.Split(arn, "/"): the last part when there are at least two, else ""
extractRoleNameFromProfileArn(arn) ==
    LET slashes == { i \in 1..Len(arn) : arn[i] = 47 }
    IN  IF slashes = {} THEN <<>>
        ELSE LET last == CHOOSE i \in slashes : \A j \in slashes : j <= i
             IN  SubSeq(arn, last + 1, Len(arn))

\* checkRoleSSMPermissions that looks at the attached managed policies only
checkRoleSSMPermissionsManagedOnly(iam) ==
    IF iam.ListAttachedErr THEN [has |-> FALSE, err |-> TRUE]
    ELSE IF \E i \in 1..Len(iam.AttachedPolicies) :
                /\ iam.AttachedPolicies[i] # Nil
                /\ Contains(iam.AttachedPolicies[i][1], SSMManagedPolicy)
    THEN [has |-> TRUE, err |-> FALSE]
    ELSE IF iam.ListInlineErr THEN [has |-> FALSE, err |-> TRUE]
    ELSE [has |-> FALSE, err |-> FALSE]

\* (bool, error) of checkRoleSSMPermissions; a failing GetRolePolicy is skipped
checkRoleSSMPermissions(iam) ==
    IF iam.ListAttachedErr THEN [has |-> FALSE, err |-> TRUE]
    ELSE IF \E i \in 1..Len(iam.AttachedPolicies) :
                /\ iam.AttachedPolicies[i] # Nil
                /\ Contains(iam.AttachedPolicies[i][1], SSMManagedPolicy)
    THEN [has |-> TRUE, err |-> FALSE]
    ELSE IF iam.ListInlineErr THEN [has |-> FALSE, err |-> TRUE]
    ELSE [has |-> \E i \in 1..Len(iam.InlinePolicies) :
                     /\ ~iam.InlinePolicies[i].GetErr
                     /\ iam.InlinePolicies[i].PolicyDocument # Nil
                     /\ Contains(iam.InlinePolicies[i].PolicyDocument[1], SSMActionPrefix),
          err |-> FALSE]

checkIAMRole(inst, iam) ==
    IF inst.IamInstanceProfile = Nil \/ inst.IamInstanceProfile[1].Arn = Nil
    THEN DiagnosticResult("IAM Role Attachment", "FAIL",
                          "No IAM instance profile attached to the instance")
    ELSE IF extractRoleNameFromProfileArn(inst.IamInstanceProfile[1].Arn[1]) = <<>>
    THEN DiagnosticResult("IAM Role Attachment", "WARN",
                          "IAM profile attached but could not extract role name from ARN")
    ELSE IF checkRoleSSMPermissions(iam).err
    THEN DiagnosticResult("IAM Role Attachment", "WARN",
                          "IAM role attached but could not verify SSM permissions")
    ELSE IF checkRoleSSMPermissions(iam).has
    THEN DiagnosticResult("IAM Role Attachment", "PASS",
                          "IAM role attached with SSM permissions")
    ELSE DiagnosticResult("IAM Role Attachment", "FAIL",
                          "IAM role attached but missing required SSM permissions")

\* hasInternetRoute that keeps the association and the route in two flags
\* across the tables
hasInternetRouteAcrossTables(subnetId, routeTables) ==
    /\ \E t \in 1..Len(routeTables) :
          \E a \in 1..Len(routeTables[t].Associations) :
              /\ routeTables[t].Associations[a] # Nil
              /\ routeTables[t].Associations[a][1] = subnetId
    /\ \E t \in 1..Len(routeTables) :
          \E r \in 1..Len(routeTables[t].Routes) :
              /\ routeTables[t].Routes[r].DestinationCidrBlock # Nil
              /\ routeTables[t].Routes[r].DestinationCidrBlock[1] = "0.0.0.0/0"
              /\ routeTables[t].Routes[r].GatewayId # Nil
              /\ HasPrefix(routeTables[t].Routes[r].GatewayId[1], IgwPrefix)

\* the route-table loop: a table associated with the subnet that has a
\* 0.0.0.0/0 route whose gateway id starts with "igw-"
hasInternetRoute(subnetId, routeTables) ==
    \E t \in 1..Len(routeTables) :
        /\ \E a \in 1..Len(routeTables[t].Associations) :
              /\ routeTables[t].Associations[a] # Nil
              /\ routeTables[t].Associations[a][1] = subnetId
        /\ \E r \in 1..Len(routeTables[t].Routes) :
              /\ routeTables[t].Routes[r].DestinationCidrBlock # Nil
              /\ routeTables[t].Routes[r].DestinationCidrBlock[1] = "0.0.0.0/0"
              /\ routeTables[t].Routes[r].GatewayId # Nil
              /\ HasPrefix(routeTables[t].Routes[r].GatewayId[1], IgwPrefix)

\* checkInternetConnectivity that reports a failed DescribeRouteTables as FAIL
checkInternetConnectivityErrFails(inst, net) ==
    IF inst.SubnetId = Nil
    THEN DiagnosticResult("Internet Connectivity", "FAIL", "Instance has no subnet ID")
    ELSE IF net.DescribeSubnetsErr
    THEN DiagnosticResult("Internet Connectivity", "WARN",
                          "Could not retrieve subnet details")
    ELSE IF Len(net.Subnets) = 0
    THEN DiagnosticResult("Internet Connectivity", "FAIL", "Subnet not found")
    ELSE IF net.DescribeRouteTablesErr
    THEN DiagnosticResult("Internet Connectivity", "FAIL", "Could not check route tables")
    ELSE IF hasInternetRoute(inst.SubnetId[1], net.RouteTables)
    THEN DiagnosticResult("Internet Connectivity", "PASS",
                          "Subnet has internet gateway route (0.0.0.0/0)")
    ELSE DiagnosticResult("Internet Connectivity", "FAIL",
                          "Subnet lacks internet gateway route (0.0.0.0/0)")

checkInternetConnectivity(inst, net) ==
    IF inst.SubnetId = Nil
    THEN DiagnosticResult("Internet Connectivity", "FAIL", "Instance has no subnet ID")
    ELSE IF net.DescribeSubnetsErr
    THEN DiagnosticResult("Internet Connectivity", "WARN",
                          "Could not retrieve subnet details")
    ELSE IF Len(net.Subnets) = 0
    THEN DiagnosticResult("Internet Connectivity", "FAIL", "Subnet not found")
    ELSE IF net.DescribeRouteTablesErr
    THEN DiagnosticResult("Internet Connectivity", "WARN", "Could not check route tables")
    ELSE IF hasInternetRoute(inst.SubnetId[1], net.RouteTables)
    THEN DiagnosticResult("Internet Connectivity", "PASS",
                          "Subnet has internet gateway route (0.0.0.0/0)")
    ELSE DiagnosticResult("Internet Connectivity", "FAIL",
                          "Subnet lacks internet gateway route (0.0.0.0/0)")

\* some range of the rule is 0.0.0.0/0 or ::/0
OpenRange(rule) ==
    \E i \in 1..Len(rule.IpRanges) :
        /\ rule.IpRanges[i] # Nil
        /\ rule.IpRanges[i][1] \in {"0.0.0.0/0", "::/0"}

\* protocol "-1" or "6" with an open range
hasAllTrafficOutbound(groups) ==
    \E g \in 1..Len(groups) : \E r \in 1..Len(groups[g].IpPermissionsEgress) :
        LET rule == groups[g].IpPermissionsEgress[r]
        IN  /\ rule.IpProtocol # Nil
            /\ rule.IpProtocol[1] \in {"-1", "6"}
            /\ OpenRange(rule)

\* FromPort <= 443 <= ToPort with an open range
hasHTTPSOutbound(groups) ==
    \E g \in 1..Len(groups) : \E r \in 1..Len(groups[g].IpPermissionsEgress) :
        LET rule == groups[g].IpPermissionsEgress[r]
        IN  /\ rule.FromPort # Nil
            /\ rule.ToPort # Nil
            /\ rule.FromPort[1] <= 443
            /\ rule.ToPort[1] >= 443
            /\ OpenRange(rule)

\* checkSSMTrafficRules that looks at the HTTPS flag before the all-traffic flag
checkSSMTrafficRulesHTTPSFirst(inst, sg) ==
    IF Len(inst.SecurityGroups) = 0
    THEN DiagnosticResult("SSM Traffic Rules", "FAIL", "Instance has no security groups")
    ELSE IF sg.DescribeSecurityGroupsErr
    THEN DiagnosticResult("SSM Traffic Rules", "WARN",
                          "Could not retrieve security group details")
    ELSE IF hasHTTPSOutbound(sg.SecurityGroups)
    THEN DiagnosticResult("SSM Traffic Rules", "PASS",
                          "Security groups allow HTTPS outbound traffic (required for SSM)")
    ELSE IF hasAllTrafficOutbound(sg.SecurityGroups)
    THEN DiagnosticResult("SSM Traffic Rules", "PASS",
                          "Security groups allow all traffic outbound (includes SSM requirements)")
    ELSE DiagnosticResult("SSM Traffic Rules", "FAIL",
                          "Security groups do not allow HTTPS outbound traffic (required for SSM)")

checkSSMTrafficRules(inst, sg) ==
    IF Len(inst.SecurityGroups) = 0
    THEN DiagnosticResult("SSM Traffic Rules", "FAIL", "Instance has no security groups")
    ELSE IF sg.DescribeSecurityGroupsErr
    THEN DiagnosticResult("SSM Traffic Rules", "WARN",
                          "Could not retrieve security group details")
    ELSE IF hasAllTrafficOutbound(sg.SecurityGroups)
    THEN DiagnosticResult("SSM Traffic Rules", "PASS",
                          "Security groups allow all traffic outbound (includes SSM requirements)")
    ELSE IF hasHTTPSOutbound(sg.SecurityGroups)
    THEN DiagnosticResult("SSM Traffic Rules", "PASS",
                          "Security groups allow HTTPS outbound traffic (required for SSM)")
    ELSE DiagnosticResult("SSM Traffic Rules", "FAIL",
                          "Security groups do not allow HTTPS outbound traffic (required for SSM)")

\* CountStatus whose loop starts at the second result
CountStatusSkipFirst(res, status) ==
    Cardinality({ i \in 2..Len(res) : res[i].Status = status })

\* the counting loop of displayDiagnosticResults
CountStatus(res, status) == Cardinality({ i \in 1..Len(res) : res[i].Status = status })

\* Verdict that tests for warnings before failures
VerdictWarnFirst(passCount, failCount, warnCount) ==
    IF failCount = 0 /\ warnCount = 0 THEN "All checks passed"
    ELSE IF warnCount > 0 THEN "Some warnings detected"
    ELSE "Some checks failed"

\* the closing line of displayDiagnosticResults
Verdict(passCount, failCount, warnCount) ==
    IF failCount = 0 /\ warnCount = 0 THEN "All checks passed"
    ELSE IF failCount > 0 THEN "Some checks failed"
    ELSE "Some warnings detected"

NoSummary == [pass |-> 0, fail |-> 0, warn |-> 0, verdict |-> "none"]

(* Answers of the AWS APIs the checks may receive *)

\* "prof" (no slash) and "prof/role"
ProfileArns ==
    { <<112, 114, 111, 102>>, <<112, 114, 111, 102, 47, 114, 111, 108, 101>> }

InstanceDetails ==
    { [IamInstanceProfile |-> p, SubnetId |-> s, SecurityGroups |-> g] :
        p \in {Nil, <<[Arn |-> Nil]>>} \cup { <<[Arn |-> <<a>>]>> : a \in ProfileArns },
        s \in {Nil, <<"subnet-1">>},
        g \in {<<>>, <<"sg-1">>} }

\* policy ARNs: nil, "p/AmazonSSMManagedInstanceCore", "p/ReadOnly"
PolicyArns ==
    { Nil,
      << <<112, 47, 65, 109, 97, 122, 111, 110, 83, 83, 77, 77, 97, 110, 97, 103, 101,
           100, 73, 110, 115, 116, 97, 110, 99, 101, 67, 111, 114, 101>> >>,
      << <<112, 47, 82, 101, 97, 100, 79, 110, 108, 121>> >> }

\* inline policies: GetRolePolicy fails, or a document: nil, "ssm:*", "s3:*"
InlinePolicies ==
    { [GetErr |-> TRUE, PolicyDocument |-> Nil] }
        \cup { [GetErr |-> FALSE, PolicyDocument |-> d] :
                 d \in { Nil, << <<115, 115, 109, 58, 42>> >>, << <<115, 51, 58, 42>> >> } }

\* ListAttachedRolePolicies fails; or ListRolePolicies fails; or both answer
IamAnswers ==
    { [ListAttachedErr |-> TRUE, AttachedPolicies |-> <<>>,
       ListInlineErr |-> FALSE, InlinePolicies |-> <<>>] }
    \cup
    { [ListAttachedErr |-> FALSE, AttachedPolicies |-> ap,
       ListInlineErr |-> TRUE, InlinePolicies |-> <<>>] :
        ap \in {<<>>} \cup { <<a>> : a \in PolicyArns } }
    \cup
    { [ListAttachedErr |-> FALSE, AttachedPolicies |-> ap,
       ListInlineErr |-> FALSE, InlinePolicies |-> ip] :
        ap \in {<<>>} \cup { <<a>> : a \in PolicyArns },
        ip \in {<<>>} \cup { <<q>> : q \in InlinePolicies } }

\* gateway ids: nil, "igw-1", "nat-1"
RouteTables ==
    {<<>>} \cup
    { << [Associations |-> <<a>>,
          Routes |-> << [DestinationCidrBlock |-> d, GatewayId |-> g] >>] >> :
        a \in {Nil, <<"subnet-1">>, <<"subnet-2">>},
        d \in {Nil, <<"0.0.0.0/0">>, <<"10.0.0.0/8">>},
        g \in {Nil, << <<105, 103, 119, 45, 49>> >>, << <<110, 97, 116, 45, 49>> >>} }

\* DescribeSubnets fails or finds nothing; or DescribeRouteTables fails or answers
NetAnswers ==
    { [DescribeSubnetsErr |-> TRUE, Subnets |-> <<>>,
       DescribeRouteTablesErr |-> FALSE, RouteTables |-> <<>>],
      [DescribeSubnetsErr |-> FALSE, Subnets |-> <<>>,
       DescribeRouteTablesErr |-> FALSE, RouteTables |-> <<>>],
      [DescribeSubnetsErr |-> FALSE, Subnets |-> <<"subnet-1">>,
       DescribeRouteTablesErr |-> TRUE, RouteTables |-> <<>>] }
    \cup
    { [DescribeSubnetsErr |-> FALSE, Subnets |-> <<"subnet-1">>,
       DescribeRouteTablesErr |-> FALSE, RouteTables |-> rt] : rt \in RouteTables }

EgressRules ==
    { [IpProtocol |-> p, FromPort |-> f, ToPort |-> t, IpRanges |-> r] :
        p \in {Nil, <<"-1">>, <<"6">>, <<"17">>},
        f \in {Nil, <<22>>, <<443>>},
        t \in {Nil, <<22>>, <<443>>},
        r \in {<<>>, <<Nil>>, << <<"0.0.0.0/0">> >>, << <<"10.0.0.0/8">> >>} }

\* DescribeSecurityGroups fails or answers
SgAnswers ==
    { [DescribeSecurityGroupsErr |-> TRUE, SecurityGroups |-> <<>>] }
    \cup
    { [DescribeSecurityGroupsErr |-> FALSE, SecurityGroups |-> g] :
        g \in {<<>>} \cup { << [IpPermissionsEgress |-> <<r>>] >> : r \in EgressRules } }

\* the answers a check can get: only one when it returns before its first call
IamAnswersFor(inst) ==
    IF inst.IamInstanceProfile = Nil \/ inst.IamInstanceProfile[1].Arn = Nil
    THEN { [ListAttachedErr |-> FALSE, AttachedPolicies |-> <<>>,
            ListInlineErr |-> FALSE, InlinePolicies |-> <<>>] }
    ELSE IamAnswers

NetAnswersFor(inst) ==
    IF inst.SubnetId = Nil
    THEN { [DescribeSubnetsErr |-> FALSE, Subnets |-> <<>>,
            DescribeRouteTablesErr |-> FALSE, RouteTables |-> <<>>] }
    ELSE NetAnswers

SgAnswersFor(inst) ==
    IF Len(inst.SecurityGroups) = 0
    THEN { [DescribeSecurityGroupsErr |-> FALSE, SecurityGroups |-> <<>>] }
    ELSE SgAnswers

----------------------------------------------------------------------------
(* Lifecycle of the session controller, read off the code position *)

Lifecycle ==
    CASE spc = "idle" -> "Idle"
      [] spc \in {"notify", "start"} -> "Starting"
      [] spc \in {"go", "select"} -> "Running"
      [] spc \in {"signal", "waitdone"} -> "Terminating"
      [] spc = "returned" /\ branch = "sig" -> "Terminated"
      [] spc = "returned" /\ branch = "done" /\ result = "nil" -> "Completed"
      [] OTHER -> "Error"

\* no check function has been called on its own
NoProbe == [check |-> "none"]

\* the earlier main has not listed anything yet
NoVariant == [pc |-> "list"]

MainEnded == mpc \in {"done", "fatal", "panic", "killed"}

----------------------------------------------------------------------------
Init ==
    /\ mpc = "lookpath"
    /\ checkMode = FALSE
    /\ instances = <<>>
    /\ input = <<>>
    /\ selected = NoInstance
    /\ diag = "none"
    /\ instance = Nil
    /\ results = <<>>
    /\ summary = NoSummary
    /\ spc = "idle"
    /\ registered = FALSE
    /\ sigChan = <<>>
    /\ done = <<>>
    /\ wpc = "none"
    /\ waitErr = FALSE
    /\ procState = "none"
    /\ exitKind = "none"
    /\ childSignals = <<>>
    /\ branch = "none"
    /\ result = "none"
    /\ firstEvent = "none"
    /\ pending = {}
    /\ nStarts = 0
    /\ nSignals = 0
    /\ probe = NoProbe
    /\ variant = NoVariant

----------------------------------------------------------------------------
(* main *)

\* exec.LookPath("aws"); log.Fatal when the CLI is missing
LookPath ==
    /\ mpc = "lookpath"
    /\ \E found \in BOOLEAN : mpc' = IF found THEN "flags" ELSE "fatal"
    /\ UNCHANGED <<checkMode, instances, input, selected, diag, instance, results, summary, sessVars, envVars>>

\* flag.Parse
ParseFlags ==
    /\ mpc = "flags"
    /\ \E c \in BOOLEAN : checkMode' = c
    /\ mpc' = "config"
    /\ UNCHANGED <<instances, input, selected, diag, instance, results, summary, sessVars, envVars>>

\* config.LoadDefaultConfig and sts GetCallerIdentity
Authenticate ==
    /\ mpc = "config"
    /\ \E ok \in BOOLEAN : mpc' = IF ok THEN "list" ELSE "fatal"
    /\ UNCHANGED <<checkMode, instances, input, selected, diag, instance, results, summary, sessVars, envVars>>

\* instances, err := getInstances(ctx, ec2Client), then the listing is printed
ListInstances ==
    /\ mpc = "list"
    /\ \/ /\ mpc' = "fatal"
          /\ UNCHANGED instances
       \/ \E arrival \in Arrivals :
            /\ instances' = getInstances(arrival)
            /\ mpc' = "prompt"
    /\ UNCHANGED <<checkMode, input, selected, diag, instance, results, summary, sessVars, envVars>>

\* ReadSelection where a blank line selects the first instance
ReadSelectionBlankSelectsFirst ==
    /\ mpc = "prompt"
    /\ \/ /\ mpc' = "fatal"
          /\ UNCHANGED <<input, selected>>
       \/ \E line \in InputSet :
            /\ input' = line
            /\ IF line # <<>> /\ ~Atoi(line).ok
               THEN mpc' = "done" /\ UNCHANGED selected
               ELSE LET k == IF line = <<>> THEN 1 ELSE Atoi(line).val
                    IN  IF k - 1 >= 0 /\ k - 1 < Len(instances)
                        THEN mpc' = "dispatch" /\ selected' = instances[k].ID
                        ELSE mpc' = "panic" /\ UNCHANGED selected
    /\ UNCHANGED <<checkMode, instances, diag, instance, results, summary, sessVars, envVars>>

\* ReadSelection that indexes with instances[inputInt]
ReadSelectionOffByOne ==
    /\ mpc = "prompt"
    /\ \/ /\ mpc' = "fatal"
          /\ UNCHANGED <<input, selected>>
       \/ \E line \in InputSet :
            /\ input' = line
            /\ IF line = <<>> \/ ~Atoi(line).ok
               THEN mpc' = "done" /\ UNCHANGED selected
               ELSE LET k == Atoi(line).val
                    IN  IF k >= 0 /\ k < Len(instances)
                        THEN mpc' = "dispatch" /\ selected' = instances[k + 1].ID
                        ELSE mpc' = "panic" /\ UNCHANGED selected
    /\ UNCHANGED <<checkMode, instances, diag, instance, results, summary, sessVars, envVars>>

\* the prompt: ReadString, blank and non-numeric exits, instances[inputInt-1]
ReadSelection ==
    /\ mpc = "prompt"
    /\ \/ /\ mpc' = "fatal"
          /\ UNCHANGED <<input, selected>>
       \/ \E line \in InputSet :
            /\ input' = line
            /\ IF line = <<>> \/ ~Atoi(line).ok
               THEN mpc' = "done" /\ UNCHANGED selected
               ELSE LET k == Atoi(line).val
                    IN  IF k - 1 >= 0 /\ k - 1 < Len(instances)
                        THEN mpc' = "dispatch" /\ selected' = instances[k].ID
                        ELSE mpc' = "panic" /\ UNCHANGED selected
    /\ UNCHANGED <<checkMode, instances, diag, instance, results, summary, sessVars, envVars>>

\* if *checkMode { performDiagnostics } else { startSSMSession }
Dispatch ==
    /\ mpc = "dispatch"
    /\ IF checkMode
       THEN mpc' = "diag" /\ UNCHANGED spc
       ELSE mpc' = "session" /\ spc' = "notify"
    /\ UNCHANGED <<checkMode, instances, input, selected, diag, instance, results, summary,
                   registered, sigChan,
                   done, wpc, waitErr, procState, exitKind, childSignals,
                   branch, result, pending, nStarts, envVars>>

\* performDiagnostics up to getInstanceDetails: a failing DescribeInstances
\* or an empty answer is returned as an error, which main makes fatal
GetInstanceDetails ==
    /\ mpc = "diag"
    /\ \/ /\ diag' = "error"
          /\ mpc' = "fatal"
          /\ UNCHANGED instance
       \/ \E d \in InstanceDetails :
            /\ instance' = <<d>>
            /\ mpc' = "check1"
            /\ UNCHANGED diag
    /\ UNCHANGED <<checkMode, instances, input, selected, results, summary,
                   sessVars, envVars>>

\* results = append(results, checkIAMRole(ctx, iamClient, instance))
CheckIAM ==
    /\ mpc = "check1"
    /\ \E iam \in IamAnswersFor(instance[1]) : results' = Append(results, checkIAMRole(instance[1], iam))
    /\ mpc' = "check2"
    /\ UNCHANGED <<checkMode, instances, input, selected, diag, instance, summary,
                   sessVars, envVars>>

\* CheckInternet that puts its result in front of the earlier ones
CheckInternetPrepend ==
    /\ mpc = "check2"
    /\ \E net \in NetAnswersFor(instance[1]) :
          results' = <<checkInternetConnectivity(instance[1], net)>> \o results
    /\ mpc' = "check3"
    /\ UNCHANGED <<checkMode, instances, input, selected, diag, instance, summary,
                   sessVars, envVars>>

\* results = append(results, checkInternetConnectivity(ctx, ec2Client, instance))
CheckInternet ==
    /\ mpc = "check2"
    /\ \E net \in NetAnswersFor(instance[1]) :
          results' = Append(results, checkInternetConnectivity(instance[1], net))
    /\ mpc' = "check3"
    /\ UNCHANGED <<checkMode, instances, input, selected, diag, instance, summary,
                   sessVars, envVars>>

\* results = append(results, checkSSMTrafficRules(ctx, ec2Client, instance))
CheckTraffic ==
    /\ mpc = "check3"
    /\ \E sg \in SgAnswersFor(instance[1]) :
          results' = Append(results, checkSSMTrafficRules(instance[1], sg))
    /\ mpc' = "display"
    /\ UNCHANGED <<checkMode, instances, input, selected, diag, instance, summary,
                   sessVars, envVars>>

\* DisplayResults without the return after performDiagnostics: main goes on
\* to start the session
DisplayResultsFallThrough ==
    /\ mpc = "display"
    /\ LET passCount == CountStatus(results, "PASS")
           failCount == CountStatus(results, "FAIL")
           warnCount == CountStatus(results, "WARN")
       IN  summary' = [pass |-> passCount, fail |-> failCount, warn |-> warnCount,
                       verdict |-> Verdict(passCount, failCount, warnCount)]
    /\ diag' = "report"
    /\ mpc' = "session"
    /\ spc' = "notify"
    /\ UNCHANGED <<checkMode, instances, input, selected, instance, results,
                   registered, sigChan, done, wpc, waitErr, procState, exitKind,
                   childSignals, branch, result, pending, nStarts, envVars>>

\* displayDiagnosticResults(results); performDiagnostics returns nil
DisplayResults ==
    /\ mpc = "display"
    /\ LET passCount == CountStatus(results, "PASS")
           failCount == CountStatus(results, "FAIL")
           warnCount == CountStatus(results, "WARN")
       IN  summary' = [pass |-> passCount, fail |-> failCount, warn |-> warnCount,
                       verdict |-> Verdict(passCount, failCount, warnCount)]
    /\ diag' = "report"
    /\ mpc' = "done"
    /\ UNCHANGED <<checkMode, instances, input, selected, instance, results,
                   sessVars, envVars>>

\* SessionReturned with a retry: a failed session is started again
SessionReturnedRetry ==
    /\ mpc = "session"
    /\ spc = "returned"
    /\ IF result = "nil"
       THEN mpc' = "done" /\ UNCHANGED <<spc, result>>
       ELSE mpc' = "session" /\ spc' = "start" /\ result' = "none"
    /\ UNCHANGED <<checkMode, instances, input, selected, diag, instance, results,
                   summary, registered, sigChan, done, wpc, waitErr, procState,
                   exitKind, childSignals, branch, pending, nStarts, envVars>>

\* back in main: log.Fatal on an error of startSSMSession, else main returns
SessionReturned ==
    /\ mpc = "session"
    /\ spc = "returned"
    /\ mpc' = IF result = "nil" THEN "done" ELSE "fatal"
    /\ UNCHANGED <<checkMode, instances, input, selected, diag, instance, results, summary, sessVars, envVars>>

----------------------------------------------------------------------------
(* startSSMSession *)

\* sigChan := make(chan os.Signal, 1); signal.Notify(sigChan, SIGINT, SIGTERM)
Notify ==
    /\ mpc = "session"
    /\ spc = "notify"
    /\ registered' = TRUE
    /\ sigChan' = <<>>
    /\ spc' = "start"
    /\ UNCHANGED <<mainVars, done, wpc, waitErr, procState, exitKind,
                   childSignals, branch, result, pending, nStarts, envVars>>

\* cmd.Start() succeeds: the subprocess exists
StartOk ==
    /\ mpc = "session"
    /\ spc = "start"
    /\ nStarts' = nStarts + 1
    /\ procState' = "alive"
    /\ spc' = "go"
    /\ UNCHANGED <<mainVars, registered, sigChan, done, wpc, waitErr,
                   exitKind, childSignals, branch, result, pending, envVars>>

\* StartFail without the return: the error of cmd.Start() is ignored
StartFailIgnored ==
    /\ mpc = "session"
    /\ spc = "start"
    /\ nStarts' = nStarts + 1
    /\ spc' = "go"
    /\ UNCHANGED <<mainVars, registered, sigChan, done, wpc, waitErr, procState,
                   exitKind, childSignals, branch, result, pending, envVars>>

\* cmd.Start() fails: return fmt.Errorf("failed to start SSM session: %v", err)
StartFail ==
    /\ mpc = "session"
    /\ spc = "start"
    /\ nStarts' = nStarts + 1
    /\ result' = "start_error"
    /\ spc' = "returned"
    /\ UNCHANGED <<mainVars, registered, sigChan, done, wpc, waitErr,
                   procState, exitKind, childSignals, branch, pending, envVars>>

\* done := make(chan error, 1); go func() { done <- cmd.Wait() }()
SpawnWaiter ==
    /\ mpc = "session"
    /\ spc = "go"
    /\ done' = <<>>
    /\ wpc' = "wait"
    /\ spc' = "select"
    /\ UNCHANGED <<mainVars, registered, sigChan, waitErr, procState, exitKind,
                   childSignals, branch, result, pending, nStarts, envVars>>

\* the cases of the select that can proceed
Ready ==
    (IF sigChan # <<>> THEN {"sig"} ELSE {}) \cup (IF done # <<>> THEN {"done"} ELSE {})

\* SelectSig that returns at once: no signal forwarded, no wait for the exit
SelectSigNoWait ==
    /\ mpc = "session"
    /\ spc = "select"
    /\ "sig" \in Ready
    /\ pending' = Ready
    /\ sigChan' = Tail(sigChan)
    /\ branch' = "sig"
    /\ result' = "nil"
    /\ spc' = "returned"
    /\ UNCHANGED <<mainVars, registered, done, wpc, waitErr, procState,
                   exitKind, childSignals, nStarts, envVars>>

\* SelectSig guarded by the wrong channel: taken when done can be received
SelectSigWrongChannel ==
    /\ mpc = "session"
    /\ spc = "select"
    /\ "done" \in Ready
    /\ pending' = Ready
    /\ sigChan' = IF sigChan = <<>> THEN sigChan ELSE Tail(sigChan)
    /\ branch' = "sig"
    /\ spc' = "signal"
    /\ UNCHANGED <<mainVars, registered, done, wpc, waitErr, procState,
                   exitKind, childSignals, result, nStarts, envVars>>

\* select, case <-sigChan: taken when a signal is buffered (when both cases
\* can proceed Go picks one of them, not by order of arrival)
SelectSig ==
    /\ mpc = "session"
    /\ spc = "select"
    /\ "sig" \in Ready
    /\ pending' = Ready
    /\ sigChan' = Tail(sigChan)
    /\ branch' = "sig"
    /\ spc' = "signal"
    /\ UNCHANGED <<mainVars, registered, done, wpc, waitErr, procState,
                   exitKind, childSignals, result, nStarts, envVars>>

\* ForwardSignal with cmd.Process.Kill() in place of Signal(syscall.SIGINT)
ForwardSignalKill ==
    /\ mpc = "session"
    /\ spc = "signal"
    /\ childSignals' = Append(childSignals, "SIGKILL")
    /\ spc' = "waitdone"
    /\ UNCHANGED <<mainVars, registered, sigChan, done, wpc, waitErr,
                   procState, exitKind, branch, result, pending, nStarts, envVars>>

\* ForwardSignal inside a loop: after forwarding, the select is entered again
ForwardSignalThenSelectAgain ==
    /\ mpc = "session"
    /\ spc = "signal"
    /\ childSignals' = Append(childSignals, "SIGINT")
    /\ spc' = "select"
    /\ UNCHANGED <<mainVars, registered, sigChan, done, wpc, waitErr,
                   procState, exitKind, branch, result, pending, nStarts, envVars>>

\* log.Println(...); cmd.Process.Signal(syscall.SIGINT), its error ignored
ForwardSignal ==
    /\ mpc = "session"
    /\ spc = "signal"
    /\ childSignals' = Append(childSignals, "SIGINT")
    /\ spc' = "waitdone"
    /\ UNCHANGED <<mainVars, registered, sigChan, done, wpc, waitErr,
                   procState, exitKind, branch, result, pending, nStarts, envVars>>

\* AwaitDone without the receive: returns right after forwarding the signal
AwaitDoneNoWait ==
    /\ mpc = "session"
    /\ spc = "waitdone"
    /\ result' = "nil"
    /\ spc' = "returned"
    /\ UNCHANGED <<mainVars, registered, sigChan, done, wpc, waitErr, procState,
                   exitKind, childSignals, branch, pending, nStarts, envVars>>

\* AwaitDone that receives from sigChan in place of done
AwaitDoneOnSigChan ==
    /\ mpc = "session"
    /\ spc = "waitdone"
    /\ sigChan # <<>>
    /\ sigChan' = Tail(sigChan)
    /\ result' = "nil"
    /\ spc' = "returned"
    /\ UNCHANGED <<mainVars, registered, done, wpc, waitErr, procState,
                   exitKind, childSignals, branch, pending, nStarts, envVars>>

\* <-done in the signal case, the value dropped; then return nil
AwaitDone ==
    /\ mpc = "session"
    /\ spc = "waitdone"
    /\ done # <<>>
    /\ done' = Tail(done)
    /\ result' = "nil"
    /\ spc' = "returned"
    /\ UNCHANGED <<mainVars, registered, sigChan, wpc, waitErr, procState,
                   exitKind, childSignals, branch, pending, nStarts, envVars>>

\* SelectDone that drops the error of cmd.Wait
SelectDoneDropErr ==
    /\ mpc = "session"
    /\ spc = "select"
    /\ "done" \in Ready
    /\ pending' = Ready
    /\ done' = Tail(done)
    /\ branch' = "done"
    /\ result' = "nil"
    /\ spc' = "returned"
    /\ UNCHANGED <<mainVars, registered, sigChan, wpc, waitErr, procState,
                   exitKind, childSignals, nStarts, envVars>>

\* SelectDone with the test err != nil inverted
SelectDoneInverted ==
    /\ mpc = "session"
    /\ spc = "select"
    /\ "done" \in Ready
    /\ pending' = Ready
    /\ done' = Tail(done)
    /\ branch' = "done"
    /\ result' = IF Head(done) THEN "nil" ELSE "session_error"
    /\ spc' = "returned"
    /\ UNCHANGED <<mainVars, registered, sigChan, wpc, waitErr, procState,
                   exitKind, childSignals, nStarts, envVars>>

\* select, case err := <-done: an error result when err != nil, else return nil
SelectDone ==
    /\ mpc = "session"
    /\ spc = "select"
    /\ "done" \in Ready
    /\ pending' = Ready
    /\ done' = Tail(done)
    /\ branch' = "done"
    /\ result' = IF Head(done) THEN "session_error" ELSE "nil"
    /\ spc' = "returned"
    /\ UNCHANGED <<mainVars, registered, sigChan, wpc, waitErr, procState,
                   exitKind, childSignals, nStarts, envVars>>

----------------------------------------------------------------------------
(* The goroutine done <- cmd.Wait(), the subprocess and the operating system *)

\* cmd.Wait() returns once the subprocess has exited, and reaps it; the
\* error is nil only for exit status 0
WaiterWait ==
    /\ wpc = "wait"
    /\ procState = "exited"
    /\ procState' = "reaped"
    /\ waitErr' = (exitKind # "ok")
    /\ wpc' = "send"
    /\ UNCHANGED <<mainVars, spc, registered, sigChan, done, exitKind,
                   childSignals, branch, result, pending, nStarts, envVars>>

\* done <- err: proceeds while the buffer has room
WaiterSend ==
    /\ wpc = "send"
    /\ Len(done) < DoneChanCap
    /\ done' = Append(done, waitErr)
    /\ wpc' = "end"
    /\ UNCHANGED <<mainVars, spc, registered, sigChan, waitErr, procState,
                   exitKind, childSignals, branch, result, pending, nStarts, envVars>>

\* the subprocess ends: status 0, a failure status, or killed by a signal
ProcExit ==
    /\ procState = "alive"
    /\ \E k \in {"ok", "fail", "signaled"} : exitKind' = k
    /\ procState' = "exited"
    /\ firstEvent' = IF firstEvent = "none" THEN "exit" ELSE firstEvent
    /\ UNCHANGED <<mainVars, spc, registered, sigChan, done, wpc, waitErr,
                   childSignals, branch, result, pending, nStarts, nSignals, probe, variant>>

\* OsSignal for an unbuffered sigChan: the signal is dropped unless the
\* controller is at the select
OsSignalUnbuffered ==
    /\ registered
    /\ ~MainEnded
    /\ nSignals < MaxSignals
    /\ nSignals' = nSignals + 1
    /\ \E s \in {"SIGINT", "SIGTERM"} :
          sigChan' = IF spc = "select" /\ sigChan = <<>> THEN Append(sigChan, s) ELSE sigChan
    /\ firstEvent' = IF firstEvent = "none" THEN "sig" ELSE firstEvent
    /\ UNCHANGED <<mainVars, spc, registered, done, wpc, waitErr, procState,
                   exitKind, childSignals, branch, result, pending, nStarts, probe, variant>>

\* SIGINT or SIGTERM reaches the program after signal.Notify: the runtime
\* sends it to sigChan without blocking, so it is dropped when the buffer is full
OsSignal ==
    /\ registered
    /\ ~MainEnded
    /\ nSignals < MaxSignals
    /\ nSignals' = nSignals + 1
    /\ \E s \in {"SIGINT", "SIGTERM"} :
          sigChan' = IF Len(sigChan) < SigChanCap THEN Append(sigChan, s) ELSE sigChan
    /\ firstEvent' = IF firstEvent = "none" THEN "sig" ELSE firstEvent
    /\ UNCHANGED <<mainVars, spc, registered, done, wpc, waitErr, procState,
                   exitKind, childSignals, branch, result, pending, nStarts, probe, variant>>

\* SIGINT or SIGTERM before signal.Notify: the runtime's default ends the program
OsSignalDefault ==
    /\ ~registered
    /\ ~MainEnded
    /\ nSignals < MaxSignals
    /\ nSignals' = nSignals + 1
    /\ mpc' = "killed"
    /\ UNCHANGED <<checkMode, instances, input, selected, diag, instance, results, summary, sessVars, firstEvent, probe, variant>>

----------------------------------------------------------------------------
Next ==
    \/ LookPath
    \/ ParseFlags
    \/ Authenticate
    \/ ListInstances
    \/ ReadSelection
    \/ Dispatch
    \/ GetInstanceDetails
    \/ CheckIAM
    \/ CheckInternet
    \/ CheckTraffic
    \/ DisplayResults
    \/ SessionReturned
    \/ Notify
    \/ StartOk
    \/ StartFail
    \/ SpawnWaiter
    \/ SelectSig
    \/ ForwardSignal
    \/ AwaitDone
    \/ SelectDone
    \/ WaiterWait
    \/ WaiterSend
    \/ ProcExit
    \/ OsSignal
    \/ OsSignalDefault

Spec == Init /\ [][Next]_vars

----------------------------------------------------------------------------
(* The check functions called on their own, on answers with several items *)

RECURSIVE SeqsUpTo(_, _)
\* the slices over S of length at most n
SeqsUpTo(S, n) ==
    IF n = 0 THEN {<<>>}
    ELSE LET shorter == SeqsUpTo(S, n - 1)
         IN  shorter \cup { Append(q, x) : q \in shorter, x \in S }

\* ListAttachedRolePolicies fails; or ListRolePolicies fails; or both answer,
\* with up to MaxItems attached policies and up to MaxItems inline policies
ProbeIamAnswers ==
    { [ListAttachedErr |-> TRUE, AttachedPolicies |-> <<>>,
       ListInlineErr |-> FALSE, InlinePolicies |-> <<>>] }
    \cup
    { [ListAttachedErr |-> FALSE, AttachedPolicies |-> ap,
       ListInlineErr |-> TRUE, InlinePolicies |-> <<>>] :
        ap \in SeqsUpTo(PolicyArns, MaxItems) }
    \cup
    { [ListAttachedErr |-> FALSE, AttachedPolicies |-> ap,
       ListInlineErr |-> FALSE, InlinePolicies |-> ip] :
        ap \in SeqsUpTo(PolicyArns, MaxItems),
        ip \in SeqsUpTo(InlinePolicies, MaxItems) }

\* routes: default to "igw-1", default to "nat-1", 10.0.0.0/8 to "igw-1",
\* default without gateway id
ProbeRoutes ==
    { [DestinationCidrBlock |-> <<"0.0.0.0/0">>, GatewayId |-> << <<105, 103, 119, 45, 49>> >>],
      [DestinationCidrBlock |-> <<"0.0.0.0/0">>, GatewayId |-> << <<110, 97, 116, 45, 49>> >>],
      [DestinationCidrBlock |-> <<"10.0.0.0/8">>, GatewayId |-> << <<105, 103, 119, 45, 49>> >>],
      [DestinationCidrBlock |-> <<"0.0.0.0/0">>, GatewayId |-> Nil] }

\* a route table: one association and up to MaxItems routes
ProbeTables ==
    { [Associations |-> <<a>>, Routes |-> r] :
        a \in {Nil, <<"subnet-1">>, <<"subnet-2">>},
        r \in SeqsUpTo(ProbeRoutes, MaxItems) }

\* DescribeSubnets fails or finds nothing; or DescribeRouteTables fails, or
\* answers with no table, one table or a pair of tables
ProbeNetAnswers ==
    { [DescribeSubnetsErr |-> TRUE, Subnets |-> <<>>,
       DescribeRouteTablesErr |-> FALSE, RouteTables |-> <<>>],
      [DescribeSubnetsErr |-> FALSE, Subnets |-> <<>>,
       DescribeRouteTablesErr |-> FALSE, RouteTables |-> <<>>],
      [DescribeSubnetsErr |-> FALSE, Subnets |-> <<"subnet-1">>,
       DescribeRouteTablesErr |-> TRUE, RouteTables |-> <<>>] }
    \cup
    { [DescribeSubnetsErr |-> FALSE, Subnets |-> <<"subnet-1">>,
       DescribeRouteTablesErr |-> FALSE, RouteTables |-> rt] :
        rt \in {<<>>} \cup { <<t>> : t \in ProbeTables }
                      \cup { <<t, u>> : t, u \in ProbeTables } }

\* egress rules: any protocol, ports unset, 22-22 or 22-8443, and ranges
\* without CidrIp, open, private, or private then open
ProbeEgressRules ==
    { [IpProtocol |-> p, FromPort |-> pr[1], ToPort |-> pr[2], IpRanges |-> r] :
        p \in {Nil, <<"-1">>, <<"6">>, <<"17">>},
        pr \in { <<Nil, Nil>>, << <<22>>, <<22>> >>, << <<22>>, <<8443>> >> },
        r \in { <<Nil>>, << <<"0.0.0.0/0">> >>, << <<"10.0.0.0/8">> >>,
                << <<"10.0.0.0/8">>, <<"0.0.0.0/0">> >> } }

\* DescribeSecurityGroups fails, or answers with no group, one group of up
\* to MaxItems rules, or two groups of one rule each
ProbeSgAnswers ==
    { [DescribeSecurityGroupsErr |-> TRUE, SecurityGroups |-> <<>>] }
    \cup
    { [DescribeSecurityGroupsErr |-> FALSE, SecurityGroups |-> g] :
        g \in {<<>>}
              \cup { << [IpPermissionsEgress |-> rs] >> :
                       rs \in SeqsUpTo(ProbeEgressRules, MaxItems) }
              \cup { << [IpPermissionsEgress |-> <<r>>], [IpPermissionsEgress |-> <<q>>] >> :
                       r, q \in ProbeEgressRules } }

\* checkIAMRole(ctx, iamClient, instance) on any instance and any answers
ProbeIAM ==
    /\ probe = NoProbe
    /\ \E inst \in InstanceDetails : \E iam \in ProbeIamAnswers :
          /\ inst.SubnetId = Nil
          /\ inst.SecurityGroups = <<>>
          /\ probe' = [check |-> "iam", inst |-> inst, ans |-> iam,
                       res |-> checkIAMRole(inst, iam)]
    /\ UNCHANGED <<mainVars, sessVars, firstEvent, nSignals, variant>>

\* checkInternetConnectivity(ctx, ec2Client, instance)
ProbeInternet ==
    /\ probe = NoProbe
    /\ \E inst \in InstanceDetails : \E net \in ProbeNetAnswers :
          /\ inst.IamInstanceProfile = Nil
          /\ inst.SecurityGroups = <<>>
          /\ probe' = [check |-> "net", inst |-> inst, ans |-> net,
                       res |-> checkInternetConnectivity(inst, net)]
    /\ UNCHANGED <<mainVars, sessVars, firstEvent, nSignals, variant>>

\* checkSSMTrafficRules(ctx, ec2Client, instance)
ProbeTraffic ==
    /\ probe = NoProbe
    /\ \E inst \in InstanceDetails : \E sg \in ProbeSgAnswers :
          /\ inst.IamInstanceProfile = Nil
          /\ inst.SubnetId = Nil
          /\ probe' = [check |-> "sg", inst |-> inst, ans |-> sg,
                       res |-> checkSSMTrafficRules(inst, sg)]
    /\ UNCHANGED <<mainVars, sessVars, firstEvent, nSignals, variant>>

NextChecks ==
    \/ ProbeIAM
    \/ ProbeInternet
    \/ ProbeTraffic

SpecChecks == Init /\ [][NextChecks]_vars

----------------------------------------------------------------------------
(* startSSMSession alone, from its call in main, with the scheduling of the
   Go runtime and a subprocess that does exit *)

\* main has listed one instance "a" with id "i1", read "1" and called
\* startSSMSession for it
InitSession ==
    /\ mpc = "session"
    /\ checkMode = FALSE
    /\ instances = getInstances(<<[ID |-> <<105, 49>>, Name |-> <<97>>]>>)
    /\ input = <<49>>
    /\ selected = <<105, 49>>
    /\ diag = "none"
    /\ instance = Nil
    /\ results = <<>>
    /\ summary = NoSummary
    /\ spc = "notify"
    /\ registered = FALSE
    /\ sigChan = <<>>
    /\ done = <<>>
    /\ wpc = "none"
    /\ waitErr = FALSE
    /\ procState = "none"
    /\ exitKind = "none"
    /\ childSignals = <<>>
    /\ branch = "none"
    /\ result = "none"
    /\ firstEvent = "none"
    /\ pending = {}
    /\ nStarts = 0
    /\ nSignals = 0
    /\ probe = NoProbe
    /\ variant = NoVariant

NextSession ==
    \/ Notify
    \/ StartOk
    \/ StartFail
    \/ SpawnWaiter
    \/ SelectSig
    \/ ForwardSignal
    \/ AwaitDone
    \/ SelectDone
    \/ SessionReturned
    \/ WaiterWait
    \/ WaiterSend
    \/ ProcExit
    \/ OsSignal
    \/ OsSignalDefault

\* a goroutine that can run does run; the subprocess exits at some time
FairSession ==
    /\ WF_vars(Notify)
    /\ WF_vars(StartOk \/ StartFail)
    /\ WF_vars(SpawnWaiter)
    /\ WF_vars(SelectSig \/ SelectDone)
    /\ WF_vars(ForwardSignal)
    /\ WF_vars(AwaitDone)
    /\ WF_vars(SessionReturned)
    /\ WF_vars(WaiterWait)
    /\ WF_vars(WaiterSend)
    /\ WF_vars(ProcExit)

SpecSession == InitSession /\ [][NextSession]_vars /\ FairSession

----------------------------------------------------------------------------
(* The earlier main (src/unnamed/part_000): listing by getInstNameInfo,
   selection by instanceIDs[inputInt-1] *)

RECURSIVE InsertString(_, _)
InsertString(x, s) ==
    IF s = <<>> THEN <<x>>
    ELSE IF StrLess(x, Head(s)) THEN <<x>> \o s
    ELSE <<Head(s)>> \o InsertString(x, Tail(s))

RECURSIVE SortStrings(_)
\* sort.Strings(s)
SortStrings(s) ==
    IF s = <<>> THEN <<>> ELSE InsertString(Head(s), SortStrings(Tail(s)))

RECURSIVE RenameLoop(_, _, _, _)
\* the loop over the sorted ids: nameCount[instanceNames[id]]++, and from
\* the second occurrence on instanceNames[id] becomes "name (n)"
RenameLoop(ids, i, instanceNames, nameCount) ==
    IF i > Len(ids) THEN instanceNames
    ELSE
        LET name == instanceNames[ids[i]]
            n    == CountOf(nameCount, name) + 1
            cnt  == [k \in (DOMAIN nameCount) \cup {name} |->
                        IF k = name THEN n ELSE nameCount[k]]
        IN  RenameLoop(ids, i + 1,
                       IF n > 1
                       THEN [instanceNames EXCEPT ![ids[i]] = SprintfNameCount(name, n)]
                       ELSE instanceNames,
                       cnt)

\* the ids a listing line for the name can show: the inner loop ranges over
\* the map instanceNames, in an order Go does not fix, and stops at the
\* first id whose entry equals the name; "" when there is none
LineIds(name, instanceNames) ==
    LET matching == { id \in DOMAIN instanceNames : instanceNames[id] = name }
    IN  IF matching = {} THEN {<<>>} ELSE matching

\* the printouts the last loop can build: line idx+1 shows namesSeen[idx]
\* and the id found for it
PrintOuts(namesSeen, instanceNames) ==
    { [idx \in 1..Len(namesSeen) |->
          [Num |-> idx, Name |-> namesSeen[idx], ID |-> ids[idx]]] :
        ids \in { f \in [1..Len(namesSeen) -> (DOMAIN instanceNames) \cup {<<>>}] :
                    \A idx \in 1..Len(namesSeen) :
                        f[idx] \in LineIds(namesSeen[idx], instanceNames) } }

\* getInstNameInfo(reservations): the sorted ids, the map of names after
\* the renaming, and the printouts it can return
getInstNameInfo(arrival) ==
    LET instanceIDs == SortStrings([i \in 1..Len(arrival) |-> arrival[i].ID])
        rawNames    == [id \in { arrival[i].ID : i \in 1..Len(arrival) } |->
                          (CHOOSE r \in { arrival[i] : i \in 1..Len(arrival) } :
                              r.ID = id).Name]
        names       == RenameLoop(instanceIDs, 1, rawNames, << >>)
        namesSeen   == SortStrings([i \in 1..Len(arrival) |-> arrival[i].Name])
    IN  [instanceIDs |-> instanceIDs, instanceNames |-> names,
         printOuts |-> PrintOuts(namesSeen, names)]

\* main up to fmt.Println(strings.Join(printOut, "\n")); log.Fatal when the
\* configuration cannot be loaded
VariantList ==
    /\ variant.pc = "list"
    /\ \/ variant' = [pc |-> "fatal"]
       \/ \E arrival \in Arrivals : \E printOut \in getInstNameInfo(arrival).printOuts :
            variant' = [pc |-> "prompt",
                        instanceIDs |-> getInstNameInfo(arrival).instanceIDs,
                        instanceNames |-> getInstNameInfo(arrival).instanceNames,
                        printOut |-> printOut,
                        input |-> <<>>,
                        target |-> NoInstance]
    /\ UNCHANGED <<mainVars, sessVars, firstEvent, nSignals, probe>>

\* the prompt: blank and non-numeric exits, then
\* startSSMSession(instanceIDs[inputInt-1])
VariantSelect ==
    /\ variant.pc = "prompt"
    /\ \/ variant' = [variant EXCEPT !.pc = "fatal"]
       \/ \E line \in InputSet :
            variant' =
                IF line = <<>> \/ ~Atoi(line).ok
                THEN [variant EXCEPT !.pc = "done", !.input = line]
                ELSE IF Atoi(line).val - 1 >= 0 /\ Atoi(line).val - 1 < Len(variant.instanceIDs)
                THEN [variant EXCEPT !.pc = "session", !.input = line,
                                     !.target = variant.instanceIDs[Atoi(line).val]]
                ELSE [variant EXCEPT !.pc = "panic", !.input = line]
    /\ UNCHANGED <<mainVars, sessVars, firstEvent, nSignals, probe>>

NextVariant ==
    \/ VariantList
    \/ VariantSelect

SpecVariant == Init /\ [][NextVariant]_vars

----------------------------------------------------------------------------
(* Properties of the session controller *)

\* C1: once the subprocess has been started, startSSMSession has returned
\* only if the subprocess has exited and been reaped by cmd.Wait and the
\* notification sent on done has been received
ReturnOnlyAfterExit ==
    (spc = "returned" /\ procState # "none")
        => (procState = "reaped" /\ wpc = "end" /\ done = <<>>)

\* an interrupt came first, was forwarded, and the return followed the exit
ReturnedAfterInterrupt ==
    /\ spc = "returned"
    /\ branch = "sig"
    /\ firstEvent = "sig"
    /\ procState = "reaped"

\* C2: when the signal case of the select is taken, the next step of the
\* controller passes SIGINT (and nothing else, ever) to the subprocess, and
\* the step after that is the receive from done; only that receive returns
InterruptForwardsThenWaits ==
    [][ /\ (branch = "none" /\ branch' = "sig")
            => (spc' = "signal" /\ childSignals' = childSignals /\ result' = "none")
        /\ (spc = "signal" /\ spc' # "signal")
            => (spc' = "waitdone" /\ childSignals' = Append(childSignals, "SIGINT"))
        /\ (childSignals' # childSignals)
            => (spc = "signal" /\ childSignals' = Append(childSignals, "SIGINT"))
        /\ (spc = "waitdone" /\ spc' # "waitdone")
            => (spc' = "returned" /\ done # <<>> /\ done' = Tail(done)) ]_vars

\* SIGINT has been forwarded to a subprocess that is still running, and the
\* controller is blocked on done
BlockedAfterForward ==
    /\ spc = "waitdone"
    /\ childSignals = <<"SIGINT">>
    /\ procState = "alive"
    /\ done = <<>>

\* C3 as stated: after a failing or abnormal exit startSSMSession returns
\* an error, whichever case of the select was taken
FailureAlwaysReported ==
    (spc = "returned" /\ exitKind \in {"fail", "signaled"})
        => (procState = "reaped" /\ result = "session_error")

\* C3 amended: after a failing or abnormal exit the subprocess has been
\* reaped at the return; the result is the error when the exit case was
\* taken, and nil (the value of cmd.Wait dropped) when the signal case was
FailureReportedWhenExitWins ==
    (spc = "returned" /\ exitKind \in {"fail", "signaled"})
        => /\ procState = "reaped"
           /\ branch = "done" => result = "session_error"
           /\ branch = "sig" => result = "nil"

\* the subprocess was killed by a signal, the exit case was taken
AbnormalExitReported ==
    /\ spc = "returned"
    /\ branch = "done"
    /\ exitKind = "signaled"
    /\ result = "session_error"
    /\ mpc = "fatal"

\* C4: when the exit case of the select is taken the function has returned
\* in that same step, nothing was forwarded to the subprocess, and the
\* result is the error exactly when the exit was not a clean one
ExitWinsResult ==
    branch = "done"
        => /\ spc = "returned"
           /\ childSignals = <<>>
           /\ result \in {"nil", "session_error"}
           /\ result = "session_error" <=> exitKind # "ok"

\* a clean exit with no interrupt at all: main ends normally
CleanExitNoInterrupt ==
    /\ branch = "done"
    /\ nSignals = 0
    /\ exitKind = "ok"
    /\ result = "nil"
    /\ mpc = "done"

\* C5: when cmd.Start fails the function has returned the start error, with
\* no subprocess, no goroutine waiting, no select taken and nothing
\* forwarded; and before startSSMSession is called (so also after a missing
\* launcher made main fatal) no subprocess exists
StartFailureIsTerminal ==
    /\ (nStarts > 0 /\ procState = "none")
          => /\ spc = "returned"
             /\ result = "start_error"
             /\ Lifecycle = "Error"
             /\ wpc = "none"
             /\ branch = "none"
             /\ childSignals = <<>>
             /\ done = <<>>
    /\ result = "start_error" => procState = "none"
    /\ spc = "idle" => (nStarts = 0 /\ procState = "none")

\* cmd.Start failed, an interrupt is buffered and stays unforwarded, and
\* main has ended with log.Fatal
StartFailedWithInterruptPending ==
    /\ result = "start_error"
    /\ sigChan # <<>>
    /\ mpc = "fatal"

\* C6 as stated: the case taken is the one whose event occurred first, and
\* no interrupt that was pending at the select is left unobserved
FirstEventWins ==
    branch # "none"
        => /\ branch = (IF firstEvent = "sig" THEN "sig" ELSE "done")
           /\ branch = "done" => "sig" \notin pending

\* C6 amended: the case taken is one whose channel could be received from
\* when the select fired (so with one event pending that event wins, and
\* with both pending either case may be taken, whichever came first), and
\* the exit notification is never left unobserved at the return
SelectTakesPendingCase ==
    /\ branch # "none" => (branch \in pending /\ pending \subseteq {"sig", "done"})
    /\ (spc = "returned" /\ branch # "none") => (wpc = "end" /\ done = <<>>)

\* the interrupt came first and both events were pending at the select, yet
\* the exit case was taken and the interrupt stays in sigChan
BothPendingExitTaken ==
    /\ branch = "done"
    /\ pending = {"sig", "done"}
    /\ firstEvent = "sig"
    /\ sigChan # <<>>

\* the transitions C7 lists
ClaimedTransitions ==
    { <<"Idle", "Starting">>, <<"Starting", "Running">>, <<"Running", "Completed">>,
      <<"Running", "Terminating">>, <<"Terminating", "Terminated">>,
      <<"Starting", "Error">> }

\* C7 as stated: every change of the lifecycle state is one of the listed
\* transitions, and Terminating is entered by receiving an interrupt
LifecycleAsClaimed ==
    [][ /\ Lifecycle' # Lifecycle => <<Lifecycle, Lifecycle'>> \in ClaimedTransitions
        /\ (Lifecycle' = "Terminating" /\ Lifecycle # "Terminating")
              => (sigChan # <<>> /\ sigChan' = Tail(sigChan)) ]_vars

\* C7 amended: the listed transitions and Running -> Error (the exit case
\* taken with a non-nil error of cmd.Wait); no other change, so no terminal
\* state is left, and Terminating is entered from Running by receiving an
\* interrupt
LifecycleWithRunningError ==
    [][ /\ Lifecycle' # Lifecycle
              => <<Lifecycle, Lifecycle'>> \in ClaimedTransitions \cup {<<"Running", "Error">>}
        /\ (Lifecycle' = "Terminating" /\ Lifecycle # "Terminating")
              => (sigChan # <<>> /\ sigChan' = Tail(sigChan)) ]_vars

\* the controller ended in Error from Running
RunningEndedInError ==
    /\ Lifecycle = "Error"
    /\ branch = "done"
    /\ nStarts = 1

\* C8: cmd.Start is called at most once, and once startSSMSession has
\* returned, its result stands and neither it nor main runs again
SingleAttempt ==
    [][ /\ nStarts' <= 1
        /\ result # "none" => result' = result
        /\ spc = "returned" => spc' = "returned"
        /\ MainEnded => mpc' = mpc ]_vars

\* the session failed and main ended fatally after one attempt
FailedOnceAndFatal ==
    /\ mpc = "fatal"
    /\ result = "session_error"
    /\ nStarts = 1

\* C9: in check mode startSSMSession is never entered and no subprocess is
\* started; outside check mode performDiagnostics is never entered; and
\* when main has ended after a selection, exactly one of the two has run
DiagSessionExclusive ==
    /\ checkMode => (spc = "idle" /\ nStarts = 0 /\ procState = "none" /\ ~registered)
    /\ ~checkMode => (diag = "none" /\ instance = Nil /\ results = <<>>
                        /\ summary = NoSummary)
    /\ (mpc \in {"done", "fatal"} /\ selected # NoInstance)
          => ((diag # "none") # (spc = "returned"))

\* a report with a failed check was printed in check mode
CheckModeReportPrinted ==
    /\ checkMode
    /\ mpc = "done"
    /\ diag = "report"
    /\ summary.fail > 0

----------------------------------------------------------------------------
(* Properties of the listing *)

\* C10: no two records of the listing share a display name
DisplayNamesUnique ==
    \A i, j \in 1..Len(instances) :
        i # j => instances[i].DisplayName # instances[j].DisplayName

\* the records of the listing that have the raw name of record i
SameName(i) == { j \in 1..Len(instances) : instances[j].Name = instances[i].Name }

\* the place of record i among them by ascending id
RankById(i) ==
    Cardinality({ j \in SameName(i) :
                    \/ instances[j].ID = instances[i].ID
                    \/ StrLess(instances[j].ID, instances[i].ID) })

\* C11: in the listing a record whose raw name occurs once keeps it, and in
\* a group of k records with one raw name the record with the n-th smallest
\* id is shown as the raw name for n = 1 and as the raw name followed by
\* " (n)" for n = 2..k
NumberedByAscendingId ==
    \A i \in 1..Len(instances) :
        instances[i].DisplayName =
            IF RankById(i) = 1 THEN instances[i].Name
            ELSE instances[i].Name \o <<32, 40, 48 + RankById(i), 41>>

\* a listing with a group of two and a record whose raw name occurs once
GroupAndSingleListed ==
    /\ mpc = "prompt"
    /\ Len(instances) = 3
    /\ \E i, j, k \in 1..3 :
          /\ i # j
          /\ instances[i].Name = instances[j].Name
          /\ instances[k].Name # instances[i].Name

\* C12: addInstanceDisplayNames run again on the listing it produced, or on
\* that listing with the display names wiped, gives the same listing: the
\* display names depend on the raw names and the order only
DisplayNamesIdempotent ==
    /\ addInstanceDisplayNames(instances) = instances
    /\ addInstanceDisplayNames(
           [i \in 1..Len(instances) |-> [instances[i] EXCEPT !.DisplayName = <<>>]])
         = instances

\* a listing in which some record got a number
SomeRecordNumbered ==
    /\ mpc = "prompt"
    /\ \E i \in 1..Len(instances) : instances[i].DisplayName # instances[i].Name

----------------------------------------------------------------------------
(* Properties of the diagnostic report *)

\* the order in which performDiagnostics declares its checks
DeclaredChecks == <<"IAM Role Attachment", "Internet Connectivity", "SSM Traffic Rules">>

\* C13: at every point the results are the first checks of the declared
\* order, in that order, and a printed report holds all three
ReportInDeclaredOrder ==
    /\ Len(results) <= Len(DeclaredChecks)
    /\ \A i \in 1..Len(results) : results[i].CheckName = DeclaredChecks[i]
    /\ diag = "report" => Len(results) = Len(DeclaredChecks)

\* a report whose three checks ended WARN, PASS and FAIL
MixedReportPrinted ==
    /\ diag = "report"
    /\ results[1].Status = "WARN"
    /\ results[2].Status = "PASS"
    /\ results[3].Status = "FAIL"

RECURSIVE Tally(_, _)
\* how many of the results have the status, counted one by one
Tally(res, status) ==
    IF res = <<>> THEN 0
    ELSE (IF Head(res).Status = status THEN 1 ELSE 0) + Tally(Tail(res), status)

\* C14: the counts printed for a report are the counts of PASS, FAIL and
\* WARN over its results, every status is one of the three, and the counts
\* add up to the number of results
SummaryMatchesRecount ==
    diag = "report"
        => /\ summary.pass = Tally(results, "PASS")
           /\ summary.fail = Tally(results, "FAIL")
           /\ summary.warn = Tally(results, "WARN")
           /\ \A i \in 1..Len(results) : results[i].Status \in {"PASS", "FAIL", "WARN"}
           /\ summary.pass + summary.fail + summary.warn = Len(results)

\* a report with one check of each status
OneOfEachCounted ==
    /\ diag = "report"
    /\ summary.pass = 1
    /\ summary.fail = 1
    /\ summary.warn = 1

----------------------------------------------------------------------------
(* Properties of the single checks *)

\* the instance has an instance profile whose ARN ends in a role name
RoleAttached(inst) ==
    /\ inst.IamInstanceProfile # Nil
    /\ inst.IamInstanceProfile[1].Arn # Nil
    /\ LET arn == inst.IamInstanceProfile[1].Arn[1]
       IN  /\ \E i \in 1..Len(arn) : arn[i] = 47
           /\ arn[Len(arn)] # 47

\* some attached managed policy has the marker in its ARN
ManagedGrant(a) ==
    \E i \in DOMAIN a.AttachedPolicies :
        /\ a.AttachedPolicies[i] # Nil
        /\ Contains(a.AttachedPolicies[i][1], SSMManagedPolicy)

\* the i-th inline policy was fetched and its document has "ssm:"
InlineGrantAt(a, i) ==
    /\ ~a.InlinePolicies[i].GetErr
    /\ a.InlinePolicies[i].PolicyDocument # Nil
    /\ Contains(a.InlinePolicies[i].PolicyDocument[1], SSMActionPrefix)

\* a permission lookup that the check made returned an error
IamLookupFailed(a) ==
    \/ a.ListAttachedErr
    \/ /\ ~ManagedGrant(a)
       /\ \/ a.ListInlineErr
          \/ \E i \in DOMAIN a.InlinePolicies :
                /\ a.InlinePolicies[i].GetErr
                /\ \A j \in 1..(i - 1) : ~InlineGrantAt(a, j)

\* C16: checkIAMRole is FAIL with the no-profile message when the instance
\* has no instance profile; when a role is attached and every permission
\* lookup succeeds it is PASS if some attached policy ARN contains
\* "AmazonSSMManagedInstanceCore" or some inline document contains "ssm:",
\* and FAIL if none does
IdentityVerdict ==
    probe.check = "iam"
        => /\ (probe.inst.IamInstanceProfile = Nil \/ probe.inst.IamInstanceProfile[1].Arn = Nil)
                => /\ probe.res.Status = "FAIL"
                   /\ probe.res.Message = "No IAM instance profile attached to the instance"
           /\ ( /\ RoleAttached(probe.inst)
                /\ ~probe.ans.ListAttachedErr
                /\ ~probe.ans.ListInlineErr
                /\ \A i \in DOMAIN probe.ans.InlinePolicies : ~probe.ans.InlinePolicies[i].GetErr )
                => probe.res.Status =
                       IF \/ ManagedGrant(probe.ans)
                          \/ \E i \in DOMAIN probe.ans.InlinePolicies : InlineGrantAt(probe.ans, i)
                       THEN "PASS" ELSE "FAIL"

\* a role without the managed policy passes on its second inline document
PassedOnSecondInlineDocument ==
    /\ probe.check = "iam"
    /\ RoleAttached(probe.inst)
    /\ ~probe.ans.ListAttachedErr
    /\ ~probe.ans.ListInlineErr
    /\ Len(probe.ans.AttachedPolicies) > 0
    /\ ~ManagedGrant(probe.ans)
    /\ Len(probe.ans.InlinePolicies) = 2
    /\ ~probe.ans.InlinePolicies[1].GetErr
    /\ ~InlineGrantAt(probe.ans, 1)
    /\ InlineGrantAt(probe.ans, 2)
    /\ probe.res.Status = "PASS"

\* C17: when a role is attached and a permission lookup the check made
\* (ListAttachedRolePolicies, ListRolePolicies or GetRolePolicy) returned an
\* error, checkIAMRole is WARN
IamLookupErrorWarns ==
    (probe.check = "iam" /\ RoleAttached(probe.inst) /\ IamLookupFailed(probe.ans))
        => probe.res.Status = "WARN"

\* the instance's subnet has a table with a default route to an internet gateway
DefaultRouteToGateway(subnetId, tables) ==
    \E t \in DOMAIN tables :
        /\ <<subnetId>> \in { tables[t].Associations[a] : a \in DOMAIN tables[t].Associations }
        /\ \E r \in DOMAIN tables[t].Routes :
              /\ tables[t].Routes[r].DestinationCidrBlock = <<"0.0.0.0/0">>
              /\ tables[t].Routes[r].GatewayId # Nil
              /\ SubSeq(tables[t].Routes[r].GatewayId[1], 1, 4) = IgwPrefix

\* C18: when DescribeSubnets and DescribeRouteTables succeed,
\* checkInternetConnectivity is PASS if a route table associated with the
\* instance's subnet has a 0.0.0.0/0 route to an "igw-" target and FAIL if
\* none has
EgressRouteVerdict ==
    ( /\ probe.check = "net"
      /\ probe.inst.SubnetId # Nil
      /\ ~probe.ans.DescribeSubnetsErr
      /\ ~probe.ans.DescribeRouteTablesErr )
        => probe.res.Status =
               IF DefaultRouteToGateway(probe.inst.SubnetId[1], probe.ans.RouteTables)
               THEN "PASS" ELSE "FAIL"

\* the subnet's own table goes to a NAT and another subnet's table has the
\* gateway route: FAIL
GatewayRouteInOtherTable ==
    /\ probe.check = "net"
    /\ probe.inst.SubnetId # Nil
    /\ ~probe.ans.DescribeSubnetsErr
    /\ ~probe.ans.DescribeRouteTablesErr
    /\ Len(probe.ans.RouteTables) = 2
    /\ probe.ans.RouteTables[1].Associations = <<probe.inst.SubnetId>>
    /\ probe.ans.RouteTables[2].Associations # <<probe.inst.SubnetId>>
    /\ ~DefaultRouteToGateway(probe.inst.SubnetId[1], probe.ans.RouteTables)
    /\ \E r \in DOMAIN probe.ans.RouteTables[2].Routes :
          /\ probe.ans.RouteTables[2].Routes[r].DestinationCidrBlock = <<"0.0.0.0/0">>
          /\ probe.ans.RouteTables[2].Routes[r].GatewayId = <<IgwPrefix \o <<49>> >>
    /\ probe.res.Status = "FAIL"

\* C19: checkInternetConnectivity is FAIL when the instance has no subnet id
\* and WARN when DescribeSubnets, or DescribeRouteTables for the subnet it
\* found, returned an error
EgressRouteDegrades ==
    probe.check = "net"
        => /\ probe.inst.SubnetId = Nil => probe.res.Status = "FAIL"
           /\ ( /\ probe.inst.SubnetId # Nil
                /\ \/ probe.ans.DescribeSubnetsErr
                   \/ probe.ans.Subnets # <<>> /\ probe.ans.DescribeRouteTablesErr )
                => probe.res.Status = "WARN"

\* DescribeRouteTables failed for a subnet that was found: WARN
RouteTableLookupFailed ==
    /\ probe.check = "net"
    /\ probe.inst.SubnetId # Nil
    /\ ~probe.ans.DescribeSubnetsErr
    /\ probe.ans.Subnets # <<>>
    /\ probe.ans.DescribeRouteTablesErr
    /\ probe.res.Status = "WARN"

\* the rule has an open destination
OpenDestination(rule) ==
    \E i \in DOMAIN rule.IpRanges : rule.IpRanges[i] \in {<<"0.0.0.0/0">>, <<"::/0">>}

\* the rule is for every protocol, or its port range holds 443
AllTrafficOrHTTPS(rule) ==
    \/ rule.IpProtocol = <<"-1">>
    \/ /\ rule.FromPort # Nil
       /\ rule.ToPort # Nil
       /\ 443 \in rule.FromPort[1]..rule.ToPort[1]

\* C20: checkSSMTrafficRules is FAIL without a security group and WARN when
\* DescribeSecurityGroups fails; otherwise it is PASS if some egress rule of
\* some group has an open destination and is for every protocol or for a
\* port range that holds 443, and FAIL for every other rule set
TrafficVerdict ==
    probe.check = "sg"
        => probe.res.Status =
               IF probe.inst.SecurityGroups = <<>> THEN "FAIL"
               ELSE IF probe.ans.DescribeSecurityGroupsErr THEN "WARN"
               ELSE IF \E g \in DOMAIN probe.ans.SecurityGroups :
                          \E r \in DOMAIN probe.ans.SecurityGroups[g].IpPermissionsEgress :
                              LET rule == probe.ans.SecurityGroups[g].IpPermissionsEgress[r]
                              IN  OpenDestination(rule) /\ AllTrafficOrHTTPS(rule)
               THEN "PASS" ELSE "FAIL"

\* C15: a check whose dependency call returned an error is WARN, whichever
\* check it is, and a printed report has three results
FailedCallOnlyWarns ==
    /\ diag = "report" => Len(results) = 3
    /\ ( \/ probe.check = "iam" /\ RoleAttached(probe.inst) /\ IamLookupFailed(probe.ans)
         \/ /\ probe.check = "net"
            /\ probe.inst.SubnetId # Nil
            /\ \/ probe.ans.DescribeSubnetsErr
               \/ probe.ans.Subnets # <<>> /\ probe.ans.DescribeRouteTablesErr
         \/ /\ probe.check = "sg"
            /\ probe.inst.SecurityGroups # <<>>
            /\ probe.ans.DescribeSecurityGroupsErr )
        => probe.res.Status = "WARN"

\* the egress rules of all the groups of an answer
AllEgressRules(groups) ==
    UNION { { groups[g].IpPermissionsEgress[r] : r \in DOMAIN groups[g].IpPermissionsEgress } :
            g \in DOMAIN groups }

\* an open rule for every protocol
WildcardOpen(rule) == rule.IpProtocol = <<"-1">> /\ OpenDestination(rule)

\* an open rule that is not for every protocol and whose ports hold 443
HTTPSOnlyOpen(rule) ==
    /\ rule.IpProtocol # <<"-1">>
    /\ rule.FromPort # Nil
    /\ rule.ToPort # Nil
    /\ 443 \in rule.FromPort[1]..rule.ToPort[1]
    /\ OpenDestination(rule)

\* C21: when DescribeSecurityGroups answered, an open rule for every
\* protocol gives PASS with the all-traffic message whatever other rules
\* there are and wherever it stands, and the HTTPS message is given only
\* when no such rule is there
AllTrafficMessageFirst ==
    ( /\ probe.check = "sg"
      /\ probe.inst.SecurityGroups # <<>>
      /\ ~probe.ans.DescribeSecurityGroupsErr )
        => /\ (\E rule \in AllEgressRules(probe.ans.SecurityGroups) : WildcardOpen(rule))
                => /\ probe.res.Status = "PASS"
                   /\ probe.res.Message =
                        "Security groups allow all traffic outbound (includes SSM requirements)"
           /\ probe.res.Message =
                  "Security groups allow HTTPS outbound traffic (required for SSM)"
                => /\ probe.res.Status = "PASS"
                   /\ \A rule \in AllEgressRules(probe.ans.SecurityGroups) : ~WildcardOpen(rule)

\* an HTTPS-only rule in the first group, the wildcard rule in the second
HTTPSRuleBeforeWildcardRule ==
    /\ probe.check = "sg"
    /\ probe.inst.SecurityGroups # <<>>
    /\ ~probe.ans.DescribeSecurityGroupsErr
    /\ Len(probe.ans.SecurityGroups) = 2
    /\ HTTPSOnlyOpen(probe.ans.SecurityGroups[1].IpPermissionsEgress[1])
    /\ WildcardOpen(probe.ans.SecurityGroups[2].IpPermissionsEgress[1])
    /\ probe.res.Message =
           "Security groups allow all traffic outbound (includes SSM requirements)"

\* C22: the closing line of a report follows from its counts: all-passed
\* exactly when there is no failure and no warning, some-failed exactly
\* when there is a failure, warnings-only exactly when there is a warning
\* and no failure; it is always one of the three
VerdictFromCounts ==
    diag = "report"
        => /\ summary.verdict \in {"All checks passed", "Some checks failed",
                                   "Some warnings detected"}
           /\ summary.verdict = "All checks passed"
                <=> (summary.fail = 0 /\ summary.warn = 0)
           /\ summary.verdict = "Some checks failed" <=> summary.fail > 0
           /\ summary.verdict = "Some warnings detected"
                <=> (summary.fail = 0 /\ summary.warn > 0)

\* a report with a failure and a warning closes with some-failed
FailureAndWarningReported ==
    /\ diag = "report"
    /\ summary.fail > 0
    /\ summary.warn > 0
    /\ summary.verdict = "Some checks failed"

----------------------------------------------------------------------------
(* Properties of the listing order and of the prompt *)

\* the records of the listing as the paginator could have yielded them, in
\* the order given by the permutation f
Rearranged(f) ==
    [i \in 1..Len(instances) |-> [ID |-> instances[f[i]].ID, Name |-> instances[f[i]].Name]]

\* C23: the listing is ascending by raw name, then by id, and every
\* arrival order of its records gives this same listing
ListingOrderDeterministic ==
    mpc = "prompt"
        => /\ \A i \in 1..(Len(instances) - 1) :
                 \/ StrLess(instances[i].Name, instances[i + 1].Name)
                 \/ /\ instances[i].Name = instances[i + 1].Name
                    /\ StrLess(instances[i].ID, instances[i + 1].ID)
           /\ \A f \in Permutations(1..Len(instances)) :
                 getInstances(Rearranged(f)) = instances

\* a listing of three where the first two share a raw name
ListedWithTie ==
    /\ mpc = "prompt"
    /\ Len(instances) = 3
    /\ instances[1].Name = instances[2].Name
    /\ instances[3].Name # instances[1].Name
\* the line is an optional sign followed by digits only, at least one
NumericLine(s) ==
    /\ s # <<>>
    /\ LET body == IF s[1] \in {43, 45} THEN Tail(s) ELSE s
       IN  /\ body # <<>>
           /\ \A i \in 1..Len(body) : body[i] \in 48..57

\* nothing was selected and neither the diagnostics nor a session began
NothingStarted ==
    /\ selected = NoInstance
    /\ diag = "none"
    /\ instance = Nil
    /\ results = <<>>
    /\ spc = "idle"
    /\ nStarts = 0
    /\ procState = "none"

\* C24: as long as the line read at the prompt is blank or not a number,
\* no instance is selected, neither the diagnostics nor a session is
\* started, and main is not past the prompt other than by returning
BlankOrTextExits ==
    ~NumericLine(input)
        => /\ NothingStarted
           /\ mpc \notin {"dispatch", "diag", "check1", "check2", "check3",
                          "display", "session", "panic"}

\* "x" typed at a listing that has instances: main returned
TextTypedAndExited ==
    /\ mpc = "done"
    /\ input = <<120>>
    /\ Len(instances) > 0
    /\ NothingStarted

\* C28: a number k typed at the prompt with 1 <= k <= N selects the id of
\* listing line k and main goes on with that id; a number outside 1..N
\* selects nothing and starts neither the diagnostics nor a session
NumberSelectsItsLine ==
    NumericLine(input)
        => IF Atoi(input).val \in 1..Len(instances)
           THEN /\ selected = instances[Atoi(input).val].ID
                /\ mpc # "panic"
           ELSE /\ NothingStarted
                /\ mpc = "panic"

\* "2" typed at a listing of three: the session ran for the second id
SecondLineSessionStarted ==
    /\ input = <<50>>
    /\ Len(instances) = 3
    /\ selected = instances[2].ID
    /\ selected # instances[1].ID
    /\ nStarts = 1
----------------------------------------------------------------------------
(* Properties of the session controller: termination and signals *)

\* C25: with a subprocess that exits, startSSMSession returns once it has
\* started the subprocess; the send on done always finds room; at the
\* return after either case of the select the waiter has ended and done is
\* empty; and while the subprocess runs, a controller that waits after the
\* forwarded interrupt stays waiting
SessionTerminates ==
    /\ (spc = "go") ~> (spc = "returned")
    /\ [](wpc = "send" => Len(done) < DoneChanCap)
    /\ []((spc = "returned" /\ branch # "none") => (wpc = "end" /\ done = <<>>))
    /\ [][(spc = "waitdone" /\ procState = "alive") => spc' = "waitdone"]_vars

\* returned after the interrupt case, the subprocess killed by the signal,
\* the waiter ended and done drained
DrainedAfterInterrupt ==
    /\ spc = "returned"
    /\ branch = "sig"
    /\ exitKind = "signaled"
    /\ wpc = "end"
    /\ done = <<>>
\* C26: the subprocess is sent at most one signal; none when the exit
\* case of the select was taken; and once the interrupt case was taken,
\* a further interrupt neither reaches the subprocess nor changes the
\* result, which is nil
AtMostOneSignalForwarded ==
    /\ Len(childSignals) <= 1
    /\ branch = "done" => childSignals = <<>>
    /\ (branch = "sig" /\ spc \in {"waitdone", "returned"}) => childSignals = <<"SIGINT">>
    /\ (branch = "sig" /\ spc = "returned") => result = "nil"

\* two interrupts were delivered, one was forwarded, the session has returned
SecondInterruptNotForwarded ==
    /\ spc = "returned"
    /\ branch = "sig"
    /\ nSignals = 2
    /\ Len(childSignals) = 1

\* C27: the subprocess exists only after signal.Notify; an interrupt
\* delivered after signal.Notify and before the select is taken stays in
\* sigChan; and a controller that leaves the select while a signal is
\* buffered and the subprocess runs takes the signal case, after which
\* SIGINT is what the subprocess is sent
EarlyInterruptRetained ==
    /\ [](procState # "none" => registered)
    /\ []((registered /\ nSignals > 0 /\ spc \in {"start", "go", "select"})
            => Len(sigChan) = SigChanCap)
    /\ [][(spc = "select" /\ sigChan # <<>> /\ procState = "alive" /\ spc' # "select")
            => (branch' = "sig" /\ spc' = "signal")]_vars
    /\ [][(spc = "signal" /\ spc' # "signal") => childSignals' = <<"SIGINT">>]_vars

\* the subprocess runs, the controller has not reached the select yet, and
\* the SIGTERM delivered so far is held in sigChan
InterruptHeldBeforeWait ==
    /\ spc = "go"
    /\ procState = "alive"
    /\ nSignals = 1
    /\ sigChan = <<"SIGTERM">>
----------------------------------------------------------------------------
(* Property of the earlier main *)

\* C29: in the listing of getInstNameInfo the id on line k is
\* instanceIDs[k-1], the id the session is started for when k is typed, and
\* every id is on exactly one line
NumberBesideInstanceSelectsIt ==
    variant.pc \in {"prompt", "session", "done", "panic"}
        => /\ Len(variant.printOut) = Len(variant.instanceIDs)
           /\ \A k \in 1..Len(variant.instanceIDs) :
                 /\ variant.printOut[k].Num = k
                 /\ variant.printOut[k].ID = variant.instanceIDs[k]
                 /\ Cardinality({ j \in 1..Len(variant.printOut) :
                                    variant.printOut[j].ID = variant.instanceIDs[k] }) = 1
           /\ variant.pc = "session"
                 => variant.target = variant.printOut[Atoi(variant.input).val].ID

=============================================================================
